---- MODULE Spec2Model ----
(***************************************************************************)
(* Model of the electron-website-updater webhook relay.                    *)
(*                                                                         *)
(* Three generations of routes/webhook.js are modelled side by side:       *)
(*   policy "A"  src/routes/webhook.js   (two events, no gate on the ref)  *)
(*   policy "B"  src/unnamed/part_000    (two events, shouldSendEvent)     *)
(*   policy "C"  src/unnamed/part_001    (one event, push and release)     *)
(* and two generations of utils/utils.js:                                  *)
(*   "utils"     src/utils/utils.js      (memoized authorization, sender   *)
(*                                        catches the dispatch failure)    *)
(*   "part_003"  src/unnamed/part_003    (getOctokit, nothing is caught)   *)
(*                                                                         *)
(* Strings the code inspects (refs, file paths, versions, tags) are        *)
(* sequences of one-character strings, so that regular expressions,        *)
(* includes() and replace() are computed and not assumed.  Strings the     *)
(* code only passes along or compares as a whole are TLA+ strings.         *)
(***************************************************************************)
EXTENDS Integers, Sequences, FiniteSets, TLC

----------------------------------------------------------------------------
(* Character strings *)

DigitChars == <<"0", "1", "2", "3", "4", "5", "6", "7", "8", "9">>

IsDigit(c) == \E i \in 1..10 : DigitChars[i] = c

DigitVal(c) == (CHOOSE i \in 1..10 : DigitChars[i] = c) - 1

\* s has the literal lit at position i (1-based)
HasAt(s, i, lit) ==
    /\ i >= 1
    /\ i + Len(lit) - 1 <= Len(s)
    /\ \A k \in 1..Len(lit) : s[i + k - 1] = lit[k]

\* String.prototype.includes
Includes(s, lit) == \E i \in 1..(Len(s) + 1) : HasAt(s, i, lit)

\* String.prototype.replace(lit, '') with a string pattern: the first
\* occurrence only, anywhere in the string
ReplaceFirst(s, lit, by) ==
    IF ~Includes(s, lit) THEN s
    ELSE LET i == CHOOSE j \in 1..(Len(s) + 1) :
                     /\ HasAt(s, j, lit)
                     /\ \A k \in 1..(j - 1) : ~HasAt(s, k, lit)
         IN  SubSeq(s, 1, i - 1) \o by \o SubSeq(s, i + Len(lit), Len(s))

\* end (exclusive) of the maximal run of digits that starts at i; i itself
\* when s[i] is not a digit
DigitRunEnd(s, i) ==
    CHOOSE e \in i..(Len(s) + 1) :
        /\ \A k \in i..(e - 1) : IsDigit(s[k])
        /\ (e = Len(s) + 1 \/ ~IsDigit(s[e]))

RECURSIVE ParseDigits(_)
\* decimal value of a sequence of digits
ParseDigits(ds) ==
    IF ds = <<>> THEN 0
    ELSE 10 * ParseDigits(SubSeq(ds, 1, Len(ds) - 1)) + DigitVal(ds[Len(ds)])

\* parseInt of a captured \d+ group
parseInt(ds) == ParseDigits(ds)

RECURSIVE FormatNat(_)
\* decimal rendering of a natural number
FormatNat(n) ==
    IF n < 10 THEN <<DigitChars[n + 1]>>
    ELSE FormatNat(n \div 10) \o <<DigitChars[(n % 10) + 1]>>

S_refsHeads == <<"r", "e", "f", "s", "/", "h", "e", "a", "d", "s", "/">>
S_xy        == <<"-", "x", "-", "y">>
S_docs      == <<"d", "o", "c", "s">>
S_dot       == <<".">>
S_v         == <<"v">>

\* the value a failed regular expression or a failed parse yields
Null == <<>>

----------------------------------------------------------------------------
(* Branch classifier *)

\* /(?:refs\/heads\/)?(\d+)-x-y/ tried at position i: the captured digits,
\* or Null.  The optional prefix is tried first (greedy), then skipped.
MajorRegexAt(s, i) ==
    LET j == i + Len(S_refsHeads)
    IN  IF /\ HasAt(s, i, S_refsHeads)
           /\ DigitRunEnd(s, j) > j
           /\ HasAt(s, DigitRunEnd(s, j), S_xy)
        THEN SubSeq(s, j, DigitRunEnd(s, j) - 1)
        ELSE IF i <= Len(s) /\ DigitRunEnd(s, i) > i
                /\ HasAt(s, DigitRunEnd(s, i), S_xy)
        THEN SubSeq(s, i, DigitRunEnd(s, i) - 1)
        ELSE Null

\* majorRegex.exec(s)[1]: group 1 of the leftmost match, Null when exec
\* returns null.  The expression is anchored at neither end.
MajorRegexExec(s) ==
    IF \A i \in 1..Len(s) : MajorRegexAt(s, i) = Null THEN Null
    ELSE LET i == CHOOSE j \in 1..Len(s) :
                     /\ MajorRegexAt(s, j) # Null
                     /\ \A k \in 1..(j - 1) : MajorRegexAt(s, k) = Null
         IN  MajorRegexAt(s, i)

\* getMajor throws (destructuring of null) when the expression does not match
getMajorThrows(version) == MajorRegexExec(version) = Null

getMajor(version) == parseInt(MajorRegexExec(version))

\* isLatest of src/unnamed/part_000: try { getMajor twice } catch { false }
B_isLatest(latest, current) ==
    IF getMajorThrows(latest) \/ getMajorThrows(current) THEN FALSE
    ELSE IF getMajor(current) < getMajor(latest) THEN FALSE
    ELSE TRUE

\* isLatest of src/routes/webhook.js: the same expression, inlined
A_isLatest(latest, current) ==
    IF MajorRegexExec(latest) = Null \/ MajorRegexExec(current) = Null
    THEN FALSE
    ELSE LET parsedLatest  == parseInt(MajorRegexExec(latest))
             parsedCurrent == parseInt(MajorRegexExec(current))
         IN  IF parsedCurrent < parsedLatest THEN FALSE ELSE TRUE

\* the test without its ^ anchor
StableBranchTest_Unanchored(s) ==
    \E i \in 1..Len(s) :
        /\ IsDigit(s[i])
        /\ \/ (i < Len(s) /\ IsDigit(s[i + 1]) /\ HasAt(s, i + 2, S_xy))
           \/ HasAt(s, i + 1, S_xy)

\* /^\d\d?-x-y/.test(s)
StableBranchTest(s) ==
    /\ Len(s) >= 1
    /\ IsDigit(s[1])
    /\ \/ (Len(s) >= 2 /\ IsDigit(s[2]) /\ HasAt(s, 3, S_xy))
       \/ HasAt(s, 2, S_xy)

\* some() without the isInPath predicate: any changed file counts
areFilesInFolderChanged_AnyFile(pushEvent, folder) ==
    \E c \in 1..Len(pushEvent.commits) :
        LET commit == pushEvent.commits[c]
        IN  Len(commit.modified) + Len(commit.added) + Len(commit.removed) > 0

\* some() over modified and added only: commit.removed is not looked at
areFilesInFolderChanged_NoRemoved(pushEvent, folder) ==
    \E c \in 1..Len(pushEvent.commits) :
        LET commit == pushEvent.commits[c]
        IN  \/ \E f \in 1..Len(commit.modified) : Includes(commit.modified[f], folder)
            \/ \E f \in 1..Len(commit.added) : Includes(commit.added[f], folder)

\* file.includes(folder) over modified, added and removed of every commit
areFilesInFolderChanged(pushEvent, folder) ==
    \E c \in 1..Len(pushEvent.commits) :
        LET commit == pushEvent.commits[c]
        IN  \/ \E f \in 1..Len(commit.modified) : Includes(commit.modified[f], folder)
            \/ \E f \in 1..Len(commit.added) : Includes(commit.added[f], folder)
            \/ \E f \in 1..Len(commit.removed) : Includes(commit.removed[f], folder)

----------------------------------------------------------------------------
(* Latest-info source and semantic versions *)

\* /\.\d+\.\d+$/ tried at position i
MinorPatchTailAt(s, i) ==
    /\ HasAt(s, i, S_dot)
    /\ DigitRunEnd(s, i + 1) > i + 1
    /\ HasAt(s, DigitRunEnd(s, i + 1), S_dot)
    /\ DigitRunEnd(s, DigitRunEnd(s, i + 1) + 1) > DigitRunEnd(s, i + 1) + 1
    /\ DigitRunEnd(s, DigitRunEnd(s, i + 1) + 1) = Len(s) + 1

\* version.replace(/\.\d+\.\d+$/, '-x-y'): the version is returned unchanged
\* when it does not end in .MINOR.PATCH
BranchOfVersion(version) ==
    IF \A i \in 1..Len(version) : ~MinorPatchTailAt(version, i) THEN version
    ELSE LET i == CHOOSE j \in 1..Len(version) :
                     /\ MinorPatchTailAt(version, j)
                     /\ \A k \in 1..(j - 1) : ~MinorPatchTailAt(version, k)
         IN  SubSeq(version, 1, i - 1) \o S_xy

\* getLatestInformation once latestVersion('electron') has resolved
getLatestInformation(version) ==
    [version |-> version, branch |-> BranchOfVersion(version)]

\* payload.release.tag_name.replace(/^v/, '')
StripV(tag_name) ==
    IF HasAt(tag_name, 1, S_v) THEN SubSeq(tag_name, 2, Len(tag_name))
    ELSE tag_name

\* semver.coerce(tag): the first run of digits is the major, then up to two
\* ".digits" groups; absent groups are 0.  Null when the tag has no digit.
SemverCoerce(tag) ==
    IF \A i \in 1..Len(tag) : ~IsDigit(tag[i]) THEN Null
    ELSE LET p  == CHOOSE j \in 1..Len(tag) :
                      /\ IsDigit(tag[j])
                      /\ \A k \in 1..(j - 1) : ~IsDigit(tag[k])
             e1 == DigitRunEnd(tag, p)
             hasMinor == HasAt(tag, e1, S_dot) /\ DigitRunEnd(tag, e1 + 1) > e1 + 1
             e2 == IF hasMinor THEN DigitRunEnd(tag, e1 + 1) ELSE e1
             hasPatch == hasMinor /\ HasAt(tag, e2, S_dot)
                                  /\ DigitRunEnd(tag, e2 + 1) > e2 + 1
             e3 == IF hasPatch THEN DigitRunEnd(tag, e2 + 1) ELSE e2
         IN  << ParseDigits(SubSeq(tag, p, e1 - 1)),
                IF hasMinor THEN ParseDigits(SubSeq(tag, e1 + 1, e2 - 1)) ELSE 0,
                IF hasPatch THEN ParseDigits(SubSeq(tag, e2 + 1, e3 - 1)) ELSE 0 >>

\* SemVer.version of a coerced version: "major.minor.patch"
SemverVersionString(v) ==
    FormatNat(v[1]) \o S_dot \o FormatNat(v[2]) \o S_dot \o FormatNat(v[3])

\* new SemVer(s): <<major, minor, patch>> of "M.m.p" or "M.m.p-prerelease",
\* Null (the constructor throws) for anything else
SemverParse(s) ==
    LET e1 == DigitRunEnd(s, 1)
    IN  IF ~(e1 > 1 /\ HasAt(s, e1, S_dot) /\ DigitRunEnd(s, e1 + 1) > e1 + 1)
        THEN Null
        ELSE LET e2 == DigitRunEnd(s, e1 + 1)
             IN  IF ~(HasAt(s, e2, S_dot) /\ DigitRunEnd(s, e2 + 1) > e2 + 1)
                 THEN Null
                 ELSE LET e3 == DigitRunEnd(s, e2 + 1)
                      IN  IF e3 = Len(s) + 1 \/ (HasAt(s, e3, <<"-">>) /\ e3 < Len(s))
                          THEN << ParseDigits(SubSeq(s, 1, e1 - 1)),
                                  ParseDigits(SubSeq(s, e1 + 1, e2 - 1)),
                                  ParseDigits(SubSeq(s, e2 + 1, e3 - 1)),
                                  e3 # Len(s) + 1 >>
                          ELSE Null

\* semver.gt in place of semver.gte
SemverGte_Strict(a, b) ==
    \/ a[1] > b[1]
    \/ a[1] = b[1] /\ a[2] > b[2]
    \/ a[1] = b[1] /\ a[2] = b[2] /\ a[3] > b[3]
    \/ a[1] = b[1] /\ a[2] = b[2] /\ a[3] = b[3] /\ b[4] /\ ~a[4]

\* semver.gte(a, b) for parsed a, b: major, minor, patch compared as numbers;
\* with equal numbers a version without prerelease is the greater one
SemverGte(a, b) ==
    \/ a[1] > b[1]
    \/ a[1] = b[1] /\ a[2] > b[2]
    \/ a[1] = b[1] /\ a[2] = b[2] /\ a[3] > b[3]
    \/ a[1] = b[1] /\ a[2] = b[2] /\ a[3] = b[3] /\ (b[4] \/ ~a[4])

----------------------------------------------------------------------------
(* Program constants *)

\* process.env.OWNER || 'electron'
OWNER == "electron"
SOURCE_REPO == "electron"
A_TARGET_REPO == "electronjs.org-new"
B_TARGET_REPO == "website"
C_TARGET_REPO == "electronjs.org-new"
EVENT_TYPE == [CURRENT |-> "doc_changes", BRANCHES |-> "doc_changes_branches"]
\* utils.js and part_003
DOC_CHANGES_TYPE == "doc_changes"

----------------------------------------------------------------------------
(* Bounds and inputs *)

Majors == {1, 12, 13, 100, 101}
BackportMajors == {12, 13}

ReleaseLineRef(n) == S_refsHeads \o FormatNat(n) \o S_xy
BackportRef(n) ==
    S_refsHeads \o <<"t", "r", "o", "p", "/">> \o FormatNat(n) \o S_xy \o <<"-", "b", "p", "-", "d", "o", "c", "s">>
MainRef == S_refsHeads \o <<"m", "a", "i", "n">>
SuffixedRef == ReleaseLineRef(12) \o <<"-", "f", "i", "x">>

Refs ==
    {ReleaseLineRef(n) : n \in Majors} \cup {BackportRef(n) : n \in BackportMajors}
        \cup {MainRef, SuffixedRef}

Shas == {"d07ca4f", "0a1b2c3"}
Oids == {"123456"}
FullNames == {"electron/electron", "fork/electron"}

OtherCommit ==
    [added |-> << <<"s", "r", "c", "/", "a", ".", "c">> >>, modified |-> << <<"R", "E", "A", "D", "M", "E", ".", "m", "d">> >>, removed |-> <<>>]
ModifiedDocsCommit ==
    [added |-> <<>>, modified |-> << <<"d", "o", "c", "s", "/", "a", ".", "m", "d">> >>, removed |-> <<>>]
AddedDocsCommit ==
    [added |-> << <<"l", "i", "b", "/", "m", "y", "d", "o", "c", "s", ".", "j", "s">> >>, modified |-> <<>>, removed |-> <<>>]
RemovedDocsCommit ==
    [added |-> <<>>, modified |-> <<>>, removed |-> << <<"R", "E", "A", "D", "M", "E", ".", "m", "d">>, <<"d", "o", "c", "s", "/", "a", ".", "m", "d">> >>]

CommitLists ==
    { <<>>, <<OtherCommit>>, <<ModifiedDocsCommit>>, <<AddedDocsCommit>>,
      <<OtherCommit, RemovedDocsCommit>> }

PushBodies ==
    { [ref |-> ref, after |-> sha, repository |-> [full_name |-> fn], commits |-> cl] :
        ref \in Refs, sha \in Shas, fn \in FullNames, cl \in CommitLists }

V_12_0_6      == <<"1", "2", ".", "0", ".", "6">>
V_101_0_0     == <<"1", "0", "1", ".", "0", ".", "0">>
V_12_0_6_beta == <<"1", "2", ".", "0", ".", "6", "-", "b", "e", "t", "a", ".", "1">>
\* what latestVersion('electron') may resolve with
LatestVersions == {V_12_0_6, V_101_0_0, V_12_0_6_beta}

Tags ==
    { <<"v", "1", "2", ".", "0", ".", "7">>, <<"v", "1", "2", ".", "0", ".", "6">>, <<"v", "1", "1", ".", "1", "0", ".", "0">>, <<"v", "1", "4", ".", "0", ".", "0", "-", "n", "i", "g", "h", "t", "l", "y", ".", "2", "0", "2", "1", "0", "5", "0", "6">>, <<"v", "1", "2", ".", "0">>, <<"l", "a", "t", "e", "s", "t">> }

ReleaseBodies ==
    { [action |-> a, release |-> [tag_name |-> t, draft |-> d, prerelease |-> p],
       repository |-> [full_name |-> fn]] :
        a \in {"released", "published"}, t \in Tags, d \in BOOLEAN, p \in BOOLEAN,
        fn \in FullNames }

OtherBody == [zen |-> "Keep it logically awesome."]

Events == {"ping", "push", "release", "issues"}
BodiesOf(ev) ==
    IF ev = "push" THEN PushBodies
    ELSE IF ev = "release" THEN ReleaseBodies
    ELSE {OtherBody}

Signatures == {"missing", "valid", "invalid"}

\* the requests sent while two are in flight
ConcurrentPushBodies ==
    { [ref |-> ReleaseLineRef(n), after |-> sha,
       repository |-> [full_name |-> "electron/electron"],
       commits |-> <<ModifiedDocsCommit>>] : n \in {1, 12}, sha \in Shas }

ConcurrentReleaseBodies ==
    { [action |-> "released",
       release |-> [tag_name |-> <<"v", "1", "2", ".", "0", ".", "7">>,
                    draft |-> FALSE, prerelease |-> FALSE],
       repository |-> [full_name |-> "electron/electron"]] }

ConcurrentVersions == {V_12_0_6, V_101_0_0}

----------------------------------------------------------------------------
(* State *)

VARIABLES
    policy,         \* which routes/webhook.js is deployed: "A", "B" or "C"
    utilsVariant,   \* which utils/utils.js is deployed: "utils" or "part_003"
    creds,          \* credentials in process.env: "none", "token" or "app"
    secret,         \* TRUE when WEBHOOK_SECRET is set
    authorization,  \* _authorization of utils.js: its kind ("none" while
                    \* undefined, "token" or "app") and which construction
                    \* of an authorization object it is
    req             \* slot -> the request in that slot (see NewRequest)

vars == <<policy, utilsVariant, creds, secret, authorization, req>>

Policies == {"A", "B", "C"}
UtilsVariants == {"utils", "part_003"}
Credentials == {"none", "token", "app"}

NoBody == [none |-> TRUE]

\* pc: "idle"      no request yet
\*     "verify"    verifyIntegrity awaits verify()
\*     "latest"    the handler awaits getLatestInformation()
\*     "sha"       releaseHandler awaits getSHAFromTag()
\*     "send1/2"   the handler awaits sendRepositoryDispatchEvent(), which
\*                 awaits octokit.repos.createDispatchEvent()
\*     "done"      a response has been sent
\*     "rejected"  the handler's promise rejected; nobody catches it and no
\*                 response is sent
\* status is 0 until res.status(...).send() is called
NewRequest(ev, body) ==
    [ pc          |-> "idle",
      event       |-> ev,
      body        |-> body,
      signature   |-> "missing", \* the X-Hub-Signature-256 header as read
      sigValid    |-> FALSE,
      routed      |-> FALSE,    \* eventHandler has been reached
      status      |-> 0,
      calls       |-> <<>>,     \* argument lists of sendRepositoryDispatchEvent
      settled     |-> 0,        \* how many of these calls have settled
      senderRaised |-> FALSE,   \* one of these calls threw or rejected
      outbound    |-> <<>>,     \* arguments of octokit.repos.createDispatchEvent
      latestCalls |-> 0,        \* calls of getLatestInformation
      shaCalls    |-> <<>>,     \* argument lists of getSHAFromTag
      bodyReads   |-> {},       \* functions that have read req.body
      branch      |-> Null,
      version     |-> Null,
      latest      |-> FALSE,
      sha         |-> "" ]

Slots == {1}

\* let _authorization; (undefined), no object constructed yet
NoAuthorization == [kind |-> "none", id |-> 0]

Init ==
    /\ policy \in Policies
    /\ utilsVariant \in UtilsVariants
    /\ creds \in Credentials
    /\ secret \in BOOLEAN
    /\ authorization = NoAuthorization
    /\ req = [s \in Slots |-> NewRequest("none", NoBody)]

\* two requests in flight at once
ConcurrentSlots == {1, 2}

InitConcurrent ==
    /\ policy \in Policies
    /\ utilsVariant \in UtilsVariants
    /\ creds \in Credentials
    /\ secret \in BOOLEAN
    /\ authorization = NoAuthorization
    /\ req = [s \in ConcurrentSlots |-> NewRequest("none", NoBody)]

----------------------------------------------------------------------------
(* utils: authorization and the dispatch sender *)

\* getAuthorization of utils.js throws when nothing is memoized and neither
\* the app information nor a token is configured
getAuthorizationThrows(auth) == auth.kind = "none" /\ creds = "none"

\* getAuthorization without the test of _authorization: a new object is
\* constructed and stored by every call
getAuthorization_NoMemo(auth) == [kind |-> creds, id |-> auth.id + 1]

\* _authorization after a getAuthorization call that returns: the memoized
\* object, or a newly constructed one
getAuthorization(auth) ==
    IF auth.kind # "none" THEN auth ELSE [kind |-> creds, id |-> auth.id + 1]

\* getOctokit of part_003 returns undefined with a token (no return
\* statement on that branch) and JSON.parse(undefined) throws without the app
\* information: only the app credentials give an Octokit
getOctokitFails == creds # "app"

\* the part of sendRepositoryDispatchEvent before its await throws
SenderThrows(auth) ==
    IF utilsVariant = "utils" THEN getAuthorizationThrows(auth)
    ELSE getOctokitFails

AuthAfterSender(auth) ==
    IF utilsVariant = "utils" THEN getAuthorization(auth) ELSE auth

\* utils.js catches a rejected createDispatchEvent, part_003 does not
SenderCatches == utilsVariant = "utils"

\* the part of getSHAFromTag before its await throws: utils.js goes through
\* getAuthorization; part_003 reads the undeclared GITHUB_TOKEN
getSHAFromTagThrows(auth) ==
    IF utilsVariant = "utils" THEN getAuthorizationThrows(auth)
    ELSE TRUE

AuthAfterSHA(auth) ==
    IF utilsVariant = "utils" THEN getAuthorization(auth) ELSE auth

\* res.status(code).send()
Respond(q, code) == [q EXCEPT !.status = code, !.pc = "done"]

Reject(q) == [q EXCEPT !.pc = "rejected"]

\* the argument of octokit.repos.createDispatchEvent: the sender of utils.js
\* and of part_003 has the parameters (owner, repo, sha), whatever the number
\* of arguments of the call; event_type is the constant
createDispatchEvent(args) ==
    [ owner          |-> args[1],
      repo           |-> args[2],
      event_type     |-> DOC_CHANGES_TYPE,
      client_payload |-> [sha |-> args[3]] ]

\* await sendRepositoryDispatchEvent(...args): the call is made; it either
\* throws before its await (the caller's await rethrows) or is left pending
sendRepositoryDispatchEvent(q, auth, args, pending) ==
    LET called == [q EXCEPT !.calls = Append(@, args)]
    IN  IF SenderThrows(auth)
        THEN [q |-> Reject([called EXCEPT !.senderRaised = TRUE]), auth |-> auth]
        ELSE [q |-> [called EXCEPT !.pc = pending,
                                   !.outbound = Append(@, createDispatchEvent(args))],
              auth |-> AuthAfterSender(auth)]

\* await getSHAFromTag(repository, tagName)
getSHAFromTag(q, auth, repository, tagName) ==
    LET called == [q EXCEPT !.shaCalls = Append(@, <<repository, tagName>>)]
    IN  IF getSHAFromTagThrows(auth)
        THEN [q |-> Reject(called), auth |-> auth]
        ELSE [q |-> [called EXCEPT !.pc = "sha"], auth |-> AuthAfterSHA(auth)]

----------------------------------------------------------------------------
(* routes/webhook.js: the three push handlers and the release handler *)

SourceFullName == OWNER \o "/" \o SOURCE_REPO

\* the payload kept in a variable of the module, which the request received
\* first and still in flight has set: sha and branch are read from there
DocsPayload_Shared(payload) ==
    LET holders == {s \in DOMAIN req : req[s].event = "push"}
        shared  == IF holders = {} THEN payload
                   ELSE req[CHOOSE s \in holders : \A t \in holders : s <= t].body
    IN  [sha |-> shared.after, branch |-> ReplaceFirst(shared.ref, S_refsHeads, <<>>)]

\* the {sha, branch} payload of the two-event variants
DocsPayload(payload) ==
    [sha |-> payload.after, branch |-> ReplaceFirst(payload.ref, S_refsHeads, <<>>)]

\* the handler without the comparison of repository.full_name
A_pushHandler_AnyRepository(q, auth) ==
    LET payload == q.body
    IN  IF areFilesInFolderChanged(payload, S_docs)
        THEN sendRepositoryDispatchEvent(
                 [q EXCEPT !.latest = A_isLatest(q.branch, payload.ref)], auth,
                 <<OWNER, A_TARGET_REPO, EVENT_TYPE.BRANCHES, DocsPayload(payload)>>,
                 "send1")
        ELSE [q |-> Respond(q, 200), auth |-> auth]

\* pushHandler of src/routes/webhook.js from the return of
\* getLatestInformation to the next await or to the response
A_pushHandler(q, auth) ==
    LET payload == q.body
    IN  IF /\ payload.repository.full_name = SourceFullName
           /\ areFilesInFolderChanged(payload, S_docs)
        THEN sendRepositoryDispatchEvent(
                 [q EXCEPT !.latest = A_isLatest(q.branch, payload.ref)], auth,
                 <<OWNER, A_TARGET_REPO, EVENT_TYPE.BRANCHES, DocsPayload(payload)>>,
                 "send1")
        ELSE [q |-> Respond(q, 200), auth |-> auth]

\* shouldSendEvent of src/unnamed/part_000 throws when the last test is
\* reached and the stable branch has no major
shouldSendEventThrows(stableBranch, payload) ==
    LET branchCommit == ReplaceFirst(payload.ref, S_refsHeads, <<>>)
    IN  /\ payload.repository.full_name = SourceFullName
        /\ StableBranchTest(branchCommit)
        /\ areFilesInFolderChanged(payload, S_docs)
        /\ (getMajorThrows(branchCommit) \/ getMajorThrows(stableBranch))

\* shouldSendEvent without the test on future stables
shouldSendEvent_NoFutureGuard(stableBranch, payload) ==
    LET branchCommit == ReplaceFirst(payload.ref, S_refsHeads, <<>>)
    IN  IF payload.repository.full_name # SourceFullName THEN FALSE
        ELSE IF ~StableBranchTest(branchCommit) THEN FALSE
        ELSE IF ~areFilesInFolderChanged(payload, S_docs) THEN FALSE
        ELSE TRUE

shouldSendEvent(stableBranch, payload) ==
    LET branchCommit == ReplaceFirst(payload.ref, S_refsHeads, <<>>)
    IN  IF payload.repository.full_name # SourceFullName THEN FALSE
        ELSE IF ~StableBranchTest(branchCommit) THEN FALSE
        ELSE IF ~areFilesInFolderChanged(payload, S_docs) THEN FALSE
        ELSE IF getMajor(branchCommit) > getMajor(stableBranch) THEN FALSE
        ELSE TRUE

\* pushHandler of src/unnamed/part_000
B_pushHandler(q, auth) ==
    LET payload == q.body
    IN  IF shouldSendEventThrows(q.branch, payload)
        THEN [q |-> Reject(q), auth |-> auth]
        ELSE IF shouldSendEvent(q.branch, payload)
        THEN sendRepositoryDispatchEvent(
                 [q EXCEPT !.latest = B_isLatest(q.branch, payload.ref)], auth,
                 <<OWNER, B_TARGET_REPO, EVENT_TYPE.BRANCHES, DocsPayload(payload)>>,
                 "send1")
        ELSE [q |-> Respond(q, 200), auth |-> auth]

\* the legacy handler without the comparison of repository.full_name
C_pushHandler_AnyRepository(q, auth) ==
    LET payload == q.body
        ref     == S_refsHeads \o q.branch
    IN  IF /\ payload.ref = ref
           /\ areFilesInFolderChanged(payload, S_docs)
        THEN sendRepositoryDispatchEvent(q, auth,
                 <<OWNER, C_TARGET_REPO, payload.after>>, "send1")
        ELSE [q |-> Respond(q, 200), auth |-> auth]

\* the legacy handler without the comparison of payload.ref
C_pushHandler_AnyRef(q, auth) ==
    LET payload == q.body
    IN  IF /\ payload.repository.full_name = SourceFullName
           /\ areFilesInFolderChanged(payload, S_docs)
        THEN sendRepositoryDispatchEvent(q, auth,
                 <<OWNER, C_TARGET_REPO, payload.after>>, "send1")
        ELSE [q |-> Respond(q, 200), auth |-> auth]

\* pushHandler of src/unnamed/part_001
C_pushHandler(q, auth) ==
    LET payload == q.body
        ref     == S_refsHeads \o q.branch
    IN  IF /\ payload.ref = ref
           /\ payload.repository.full_name = SourceFullName
           /\ areFilesInFolderChanged(payload, S_docs)
        THEN sendRepositoryDispatchEvent(q, auth,
                 <<OWNER, C_TARGET_REPO, payload.after>>, "send1")
        ELSE [q |-> Respond(q, 200), auth |-> auth]

pushHandler(q, auth) ==
    IF policy = "A" THEN A_pushHandler(q, auth)
    ELSE IF policy = "B" THEN B_pushHandler(q, auth)
    ELSE C_pushHandler(q, auth)

PushTarget == IF policy = "B" THEN B_TARGET_REPO ELSE A_TARGET_REPO

\* the second sendRepositoryDispatchEvent called without await: the response
\* is sent while the call is pending
pushHandlerAfterBranches_NotAwaited(q, auth) ==
    IF policy \in {"A", "B"} /\ q.latest
    THEN LET out == sendRepositoryDispatchEvent(q, auth,
                        <<OWNER, PushTarget, EVENT_TYPE.CURRENT, DocsPayload(q.body)>>,
                        "send2")
         IN  [q |-> Respond(out.q, 200), auth |-> out.auth]
    ELSE [q |-> Respond(q, 200), auth |-> auth]

\* the push handler once its first sendRepositoryDispatchEvent has returned
pushHandlerAfterBranches(q, auth) ==
    IF policy \in {"A", "B"} /\ q.latest
    THEN sendRepositoryDispatchEvent(q, auth,
             <<OWNER, PushTarget, EVENT_TYPE.CURRENT, DocsPayload(q.body)>>,
             "send2")
    ELSE [q |-> Respond(q, 200), auth |-> auth]

\* semver.coerce(tag).version === tag throws when coerce returns null
isStableThrows(tag) == SemverCoerce(tag) = Null

isStable(tag) == SemverVersionString(SemverCoerce(tag)) = tag

\* semver.gte(tag, version) throws when one of the two is not a version
gteThrows(tag, version) == SemverParse(tag) = Null \/ SemverParse(version) = Null

\* releaseHandler of src/unnamed/part_001 from the return of
\* getLatestInformation on
C_releaseHandler(q, auth) ==
    LET payload == q.body
        tag     == StripV(payload.release.tag_name)
        before  == /\ payload.action = "released"
                   /\ ~payload.release.draft
                   /\ ~payload.release.prerelease
    IN  IF isStableThrows(tag) THEN [q |-> Reject(q), auth |-> auth]
        ELSE IF ~(before /\ isStable(tag)) THEN [q |-> Respond(q, 200), auth |-> auth]
        ELSE IF gteThrows(tag, q.version) THEN [q |-> Reject(q), auth |-> auth]
        ELSE IF SemverGte(SemverParse(tag), SemverParse(q.version))
        THEN getSHAFromTag(q, auth, payload.repository.full_name,
                           payload.release.tag_name)
        ELSE [q |-> Respond(q, 200), auth |-> auth]

\* the push handler fetching the latest information a second time for the
\* classification
eventHandler_FetchTwice(q) ==
    LET in == [q EXCEPT !.routed = TRUE]
    IN  IF in.event = "ping" THEN Respond(in, 200)
        ELSE IF in.event = "push"
        THEN [in EXCEPT !.pc = "latest", !.latestCalls = @ + 2]
        ELSE IF in.event = "release"
        THEN IF policy = "C"
             THEN [in EXCEPT !.pc = "latest", !.latestCalls = @ + 1,
                             !.bodyReads = @ \cup {"releaseHandler"}]
             ELSE Respond(in, 200)
        ELSE Respond(in, 404)

\* the switch with the break of the 'ping' case missing: the response is
\* sent and the 'push' case runs as well
eventHandler_PingFallsThrough(q) ==
    LET in == [q EXCEPT !.routed = TRUE]
    IN  IF in.event \in {"ping", "push"}
        THEN [in EXCEPT !.pc = "latest", !.latestCalls = @ + 1,
                        !.status = IF in.event = "ping" THEN 200 ELSE 0]
        ELSE IF in.event = "release"
        THEN IF policy = "C"
             THEN [in EXCEPT !.pc = "latest", !.latestCalls = @ + 1,
                             !.bodyReads = @ \cup {"releaseHandler"}]
             ELSE Respond(in, 200)
        ELSE Respond(in, 404)

\* eventHandler: the switch on the X-GitHub-Event header, and each handler
\* up to its first await
eventHandler(q) ==
    LET in == [q EXCEPT !.routed = TRUE]
    IN  IF in.event = "ping" THEN Respond(in, 200)
        ELSE IF in.event = "push"
        THEN [in EXCEPT !.pc = "latest", !.latestCalls = @ + 1]
        ELSE IF in.event = "release"
        THEN IF policy = "C"
             THEN [in EXCEPT !.pc = "latest", !.latestCalls = @ + 1,
                             !.bodyReads = @ \cup {"releaseHandler"}]
             ELSE Respond(in, 200)
        ELSE Respond(in, 404)    \* next(): no other route matches

\* verifyIntegrity with a missing header taken for a request to pass on
verifyIntegrity_MissingPasses(q, signature) ==
    IF ~secret \/ signature = "missing" THEN eventHandler(q)
    ELSE [q EXCEPT !.pc = "verify", !.signature = signature,
                   !.sigValid = (signature = "valid"),
                   !.bodyReads = @ \cup {"verifyIntegrity"}]

\* verifyIntegrity up to its await
verifyIntegrity(q, signature) ==
    IF ~secret THEN eventHandler(q)
    ELSE IF signature = "missing" THEN Respond(q, 400)
    ELSE [q EXCEPT !.pc = "verify", !.signature = signature,
                   !.sigValid = (signature = "valid"),
                   !.bodyReads = @ \cup {"verifyIntegrity"}]

----------------------------------------------------------------------------
(* Actions *)

Unchanged == UNCHANGED <<policy, utilsVariant, creds, secret>>

\* the X-Hub-Signature-256 header is read only when a secret is configured
SignaturesRead == IF secret THEN Signatures ELSE {"missing"}

\* more than one request can be in flight
Concurrent == Cardinality(DOMAIN req) > 1

EventsSent == IF Concurrent THEN {"push", "release"} ELSE Events

BodiesSent(ev) ==
    IF ~Concurrent THEN BodiesOf(ev)
    ELSE IF ev = "push" THEN ConcurrentPushBodies ELSE ConcurrentReleaseBodies

VersionsPublished == IF Concurrent THEN ConcurrentVersions ELSE LatestVersions

\* POST /webhook
Request(r) ==
    /\ req[r].pc = "idle"
    /\ \E ev \in EventsSent : \E body \in BodiesSent(ev) : \E signature \in SignaturesRead :
           req' = [req EXCEPT ![r] = verifyIntegrity(NewRequest(ev, body), signature)]
    /\ UNCHANGED authorization
    /\ Unchanged

\* the connection of a request that was answered, or whose handler failed, is
\* closed and its request and response objects are dropped
Close(r) ==
    /\ req[r].pc \in {"done", "rejected"}
    /\ req' = [req EXCEPT ![r] = NewRequest("none", NoBody)]
    /\ UNCHANGED authorization
    /\ Unchanged

\* verify() resolves
VerifySettles(r) ==
    /\ req[r].pc = "verify"
    /\ req' = [req EXCEPT ![r] =
                  IF req[r].sigValid THEN eventHandler(req[r])
                  ELSE Respond(req[r], 400)]
    /\ UNCHANGED authorization
    /\ Unchanged

\* latestVersion('electron') resolves with version
LatestResolves(r) ==
    /\ req[r].pc = "latest"
    /\ \E version \in VersionsPublished :
       LET info == getLatestInformation(version)
           q    == [req[r] EXCEPT !.branch = info.branch, !.version = info.version]
           out  == IF q.event = "push"
                   THEN pushHandler([q EXCEPT !.bodyReads = @ \cup {"pushHandler"}],
                                    authorization)
                   ELSE C_releaseHandler(q, authorization)
       IN  /\ req' = [req EXCEPT ![r] = out.q]
           /\ authorization' = out.auth
    /\ Unchanged

\* latestVersion('electron') rejects
LatestRejects(r) ==
    /\ req[r].pc = "latest"
    /\ req' = [req EXCEPT ![r] = Reject(req[r])]
    /\ UNCHANGED authorization
    /\ Unchanged

\* the graphql query of getSHAFromTag resolves with the tag's commit
SHAResolves(r) ==
    /\ req[r].pc = "sha"
    /\ \E oid \in Oids :
       LET out == sendRepositoryDispatchEvent([req[r] EXCEPT !.sha = oid],
                      authorization, <<OWNER, C_TARGET_REPO, oid>>, "send1")
       IN  /\ req' = [req EXCEPT ![r] = out.q]
           /\ authorization' = out.auth
    /\ Unchanged

\* the graphql query rejects, or the tag has no release
SHARejects(r) ==
    /\ req[r].pc = "sha"
    /\ req' = [req EXCEPT ![r] = Reject(req[r])]
    /\ UNCHANGED authorization
    /\ Unchanged

\* the handler after a sendRepositoryDispatchEvent that returned
AfterSend(q, auth) ==
    IF q.pc = "send1" /\ q.event = "push" THEN pushHandlerAfterBranches(q, auth)
    ELSE [q |-> Respond(q, 200), auth |-> auth]

\* octokit.repos.createDispatchEvent resolves
DispatchResolves(r) ==
    /\ req[r].pc \in {"send1", "send2"}
    /\ LET out == AfterSend([req[r] EXCEPT !.settled = @ + 1], authorization)
       IN  /\ req' = [req EXCEPT ![r] = out.q]
           /\ authorization' = out.auth
    /\ Unchanged

\* octokit.repos.createDispatchEvent rejects
DispatchRejects(r) ==
    /\ req[r].pc \in {"send1", "send2"}
    /\ LET settled == [req[r] EXCEPT !.settled = @ + 1]
           out == IF SenderCatches THEN AfterSend(settled, authorization)
                  ELSE [q |-> Reject([settled EXCEPT !.senderRaised = TRUE]),
                        auth |-> authorization]
       IN  /\ req' = [req EXCEPT ![r] = out.q]
           /\ authorization' = out.auth
    /\ Unchanged

Next ==
    \/ \E r \in DOMAIN req : Request(r)
    \/ \E r \in DOMAIN req : Close(r)
    \/ \E r \in DOMAIN req : VerifySettles(r)
    \/ \E r \in DOMAIN req : LatestResolves(r)
    \/ \E r \in DOMAIN req : LatestRejects(r)
    \/ \E r \in DOMAIN req : SHAResolves(r)
    \/ \E r \in DOMAIN req : SHARejects(r)
    \/ \E r \in DOMAIN req : DispatchResolves(r)
    \/ \E r \in DOMAIN req : DispatchRejects(r)

Spec == Init /\ [][Next]_vars

\* the same server with two requests in flight
SpecConcurrent == InitConcurrent /\ [][Next]_vars

----------------------------------------------------------------------------
(* Vocabulary of the properties *)

\* the release line N-x-y, written out from N
LineName(n) == FormatNat(n) \o S_xy

\* the paths of a push: every entry of added, modified and removed of every
\* commit
PathsOf(body) ==
    UNION { {body.commits[c].added[i] : i \in 1..Len(body.commits[c].added)}
              \cup {body.commits[c].modified[i] : i \in 1..Len(body.commits[c].modified)}
              \cup {body.commits[c].removed[i] : i \in 1..Len(body.commits[c].removed)}
            : c \in 1..Len(body.commits) }

DocsPath(path) == \E i \in 1..(Len(path) - 3) : SubSeq(path, i, i + 3) = S_docs

TouchesDocs(body) == \E path \in PathsOf(body) : DocsPath(path)

FromSource(body) == body.repository.full_name = "electron/electron"

DualEvent == policy \in {"A", "B"}

DualTarget == IF policy = "A" THEN "electronjs.org-new" ELSE "website"

\* the handler of the request has returned or thrown
Finished(q) == q.pc \in {"done", "rejected"}

\* the latest information has been delivered to the handler
LatestKnown(q) == q.version # Null

BranchesCall(body, n) ==
    <<"electron", DualTarget, "doc_changes_branches",
      [sha |-> body.after, branch |-> LineName(n)]>>

CurrentCall(body, n) ==
    <<"electron", DualTarget, "doc_changes",
      [sha |-> body.after, branch |-> LineName(n)]>>

\* no dispatch, and the answer, given as soon as the latest information is
\* there, is 200
SkippedWith200(q) ==
    /\ q.calls = <<>>
    /\ q.status \in {0, 200}
    /\ LatestKnown(q) => (q.pc = "done" /\ q.status = 200)

----------------------------------------------------------------------------
(* Properties *)

\* C1: in the two-event variants a docs-touching push from OWNER/electron on
\* refs/heads/N-x-y, N the major of the latest branch, makes exactly two
\* calls of sendRepositoryDispatchEvent: doc_changes_branches, then
\* doc_changes, both with {sha: after, branch: N-x-y}.
C1_TwoDispatchesOnLatestLine ==
    \A r \in DOMAIN req : \A n \in Majors :
        LET q == req[r]
        IN  ( /\ DualEvent
              /\ q.event = "push"
              /\ Finished(q)
              /\ q.branch = LineName(n)
              /\ q.body.ref = ReleaseLineRef(n)
              /\ FromSource(q.body)
              /\ TouchesDocs(q.body) )
            => q.calls = <<BranchesCall(q.body, n), CurrentCall(q.body, n)>>

\* C2: in the two-event variants a docs-touching push from OWNER/electron on
\* refs/heads/N-x-y, N below the latest major, makes exactly one call, with
\* doc_changes_branches and {sha: after, branch: N-x-y}.
C2_OneDispatchOnOlderLine ==
    \A r \in DOMAIN req : \A n \in Majors : \A m \in Majors :
        LET q == req[r]
        IN  ( /\ DualEvent
              /\ q.event = "push"
              /\ Finished(q)
              /\ n < m
              /\ q.branch = LineName(m)
              /\ q.body.ref = ReleaseLineRef(n)
              /\ FromSource(q.body)
              /\ TouchesDocs(q.body) )
            => q.calls = <<BranchesCall(q.body, n)>>

\* C3: under policy B a push on refs/heads/N-x-y with N above the latest
\* major makes no dispatch call and is answered with 200, whatever its
\* commits and repository.
C3_FutureLineSkipped ==
    \A r \in DOMAIN req : \A n \in Majors : \A m \in Majors :
        LET q == req[r]
        IN  ( /\ policy = "B"
              /\ q.event = "push"
              /\ n > m
              /\ q.branch = LineName(m)
              /\ q.body.ref = ReleaseLineRef(n) )
            => (q.calls = <<>> /\ q.pc = "done" /\ q.status = 200)

C3_Witness ==
    \E r \in DOMAIN req :
        /\ policy = "B"
        /\ req[r].event = "push"
        /\ req[r].branch = LineName(12)
        /\ req[r].body.ref = ReleaseLineRef(13)
        /\ FromSource(req[r].body)
        /\ TouchesDocs(req[r].body)
        /\ req[r].status = 200

\* C4: under policy B a push on a backport ref refs/heads/trop/N-x-y-bp-...
\* makes no dispatch call and is answered with 200, for every N.
C4_BackportSkipped ==
    \A r \in DOMAIN req : \A n \in BackportMajors :
        LET q == req[r]
        IN  ( /\ policy = "B"
              /\ q.event = "push"
              /\ q.routed
              /\ q.body.ref = BackportRef(n) )
            => SkippedWith200(q)

C4_Witness ==
    \E r \in DOMAIN req :
        /\ policy = "B"
        /\ req[r].event = "push"
        /\ req[r].branch = LineName(12)
        /\ req[r].body.ref = BackportRef(12)
        /\ FromSource(req[r].body)
        /\ TouchesDocs(req[r].body)
        /\ req[r].status = 200

\* C5: in the three variants a push none of whose paths contains 'docs' (a
\* push without commits included) makes no dispatch call and is answered
\* with 200, whatever its ref and repository.
C5_NoDocsSkipped ==
    \A r \in DOMAIN req :
        LET q == req[r]
        IN  ( /\ q.event = "push"
              /\ q.routed
              /\ ~TouchesDocs(q.body) )
            => SkippedWith200(q)

C5_Witness ==
    \E r \in DOMAIN req :
        /\ req[r].event = "push"
        /\ req[r].body.commits = <<OtherCommit>>
        /\ req[r].branch = LineName(12)
        /\ req[r].body.ref = ReleaseLineRef(12)
        /\ FromSource(req[r].body)
        /\ req[r].status = 200

\* C6: under policy C a push makes exactly the call
\* sendRepositoryDispatchEvent(OWNER, TARGET_REPO, after) if its ref is
\* 'refs/heads/' + latest branch, it comes from OWNER/electron and it touches
\* docs, and no call at all otherwise.
C6_LegacyPushDispatch ==
    \A r \in DOMAIN req :
        LET q == req[r]
        IN  ( /\ policy = "C"
              /\ q.event = "push" )
            => IF /\ LatestKnown(q)
                  /\ q.body.ref = S_refsHeads \o q.branch
                  /\ FromSource(q.body)
                  /\ TouchesDocs(q.body)
               THEN q.calls = << <<"electron", "electronjs.org-new", q.body.after>> >>
               ELSE q.calls = <<>>

C6_Witness ==
    \E r \in DOMAIN req :
        /\ policy = "C"
        /\ req[r].event = "push"
        /\ req[r].body.ref = ReleaseLineRef(12)
        /\ Len(req[r].calls) = 1
        /\ req[r].status = 200

\* the stable tags and the versions of the inputs, with the numbers they
\* stand for
StableTagNumbers ==
    { <<<<"v", "1", "2", ".", "0", ".", "7">>, <<12, 0, 7>> >>,
      <<<<"v", "1", "2", ".", "0", ".", "6">>, <<12, 0, 6>> >>,
      <<<<"v", "1", "1", ".", "1", "0", ".", "0">>, <<11, 10, 0>> >> }

VersionNumbers ==
    { <<V_12_0_6, <<12, 0, 6>> >>,
      <<V_101_0_0, <<101, 0, 0>> >>,
      <<V_12_0_6_beta, <<12, 0, 6>> >> }

NotBelow(a, b) ==
    \/ a[1] > b[1]
    \/ a[1] = b[1] /\ a[2] > b[2]
    \/ a[1] = b[1] /\ a[2] = b[2] /\ a[3] >= b[3]

\* a stable tag at or above the latest published version
StableAndCurrent(tag_name, version) ==
    \E t \in StableTagNumbers : \E v \in VersionNumbers :
        t[1] = tag_name /\ v[1] = version /\ NotBelow(t[2], v[2])

Released(body) ==
    body.action = "released" /\ ~body.release.draft /\ ~body.release.prerelease

\* C7: under policy C a release with action 'released', neither draft nor
\* prerelease, whose tag is a stable version at or above the latest published
\* version (equal included) has getSHAFromTag(full_name, tag_name) called
\* once, and the one dispatch call sendRepositoryDispatchEvent(OWNER,
\* TARGET_REPO, sha) is made with the sha that lookup returned, not before it
\* has returned.
C7_ReleaseDispatch ==
    \A r \in DOMAIN req :
        LET q == req[r]
        IN  ( /\ policy = "C"
              /\ q.event = "release"
              /\ LatestKnown(q)
              /\ Released(q.body)
              /\ StableAndCurrent(q.body.release.tag_name, q.version) )
            => /\ q.shaCalls = << <<q.body.repository.full_name,
                                    q.body.release.tag_name>> >>
               /\ IF q.sha = "" THEN q.calls = <<>>
                  ELSE q.calls = << <<"electron", "electronjs.org-new", q.sha>> >>
               /\ q.pc = "done" => (q.sha \in Oids /\ q.status = 200)

C7_Witness ==
    \E r \in DOMAIN req :
        /\ policy = "C"
        /\ req[r].event = "release"
        /\ req[r].body.release.tag_name = <<"v", "1", "2", ".", "0", ".", "6">>
        /\ req[r].version = V_12_0_6
        /\ req[r].calls = << <<"electron", "electronjs.org-new", "123456">> >>
        /\ req[r].status = 200

\* a release that misses one of the conditions of C8
NotEligible(body, version) ==
    \/ body.action # "released"
    \/ body.release.draft
    \/ body.release.prerelease
    \/ body.release.tag_name = <<"v", "1", "4", ".", "0", ".", "0", "-", "n", "i", "g", "h", "t", "l", "y", ".", "2", "0", "2", "1", "0", "5", "0", "6">>
    \/ \E t \in StableTagNumbers : \E v \in VersionNumbers :
           t[1] = body.release.tag_name /\ v[1] = version /\ ~NotBelow(t[2], v[2])

\* C8: under policy C a release that misses one eligibility condition makes
\* no dispatch call, never has getSHAFromTag called, and is answered with 200.
C8_IneligibleReleaseSkipped ==
    \A r \in DOMAIN req :
        LET q == req[r]
        IN  ( /\ policy = "C"
              /\ q.event = "release"
              /\ LatestKnown(q)
              /\ NotEligible(q.body, q.version) )
            => (q.calls = <<>> /\ q.shaCalls = <<>> /\ q.pc = "done" /\ q.status = 200)

\* C9: a 'ping' is answered with 200 by eventHandler, with no dispatch call,
\* no getLatestInformation, no getSHAFromTag and no handler reading req.body,
\* in every variant.
C9_PingOnlyAnswered ==
    \A r \in DOMAIN req :
        LET q == req[r]
        IN  (q.event = "ping" /\ q.routed)
            => /\ q.pc = "done"
               /\ q.status = 200
               /\ q.calls = <<>>
               /\ q.latestCalls = 0
               /\ q.shaCalls = <<>>
               /\ q.bodyReads \cap {"pushHandler", "releaseHandler"} = {}

C9_Witness ==
    \E r \in DOMAIN req :
        /\ req[r].event = "ping"
        /\ req[r].routed
        /\ secret
        /\ req[r].status = 200

\* C10: every push or release that has passed verifyIntegrity is answered
\* with 200 when its handler ends, whatever the latest-info fetch, the SHA
\* lookup and the dispatch sends did.
C10_AlwaysAnswered200 ==
    \A r \in DOMAIN req :
        LET q == req[r]
        IN  (q.event \in {"push", "release"} /\ q.routed /\ Finished(q))
            => q.status = 200

\* C11: sendRepositoryDispatchEvent never raises to its caller: a failure of
\* the outbound dispatch, network or authorization (no auth strategy in the
\* environment included), is caught inside the sender.
C11_SenderNeverRaises ==
    \A r \in DOMAIN req : ~req[r].senderRaised

\* C12: with a webhook secret configured, a request without the
\* X-Hub-Signature-256 header or with a signature that does not verify is
\* answered with 400 and never reaches the event router (no latest-info
\* fetch, no dispatch); with no secret every request reaches the router.
C12_IntegrityGate ==
    \A r \in DOMAIN req :
        LET q == req[r]
        IN  /\ (secret /\ q.pc # "idle" /\ q.signature \in {"missing", "invalid"})
                => /\ ~q.routed
                   /\ q.latestCalls = 0
                   /\ q.calls = <<>>
                   /\ q.outbound = <<>>
                   /\ q.pc \in {"verify", "done"}
                   /\ q.pc = "done" => q.status = 400
                   /\ q.pc = "verify" => q.status = 0
            /\ (~secret /\ q.pc # "idle") => q.routed

C12_Witness ==
    \E r \in DOMAIN req :
        /\ secret
        /\ req[r].event = "push"
        /\ req[r].signature = "invalid"
        /\ FromSource(req[r].body)
        /\ TouchesDocs(req[r].body)
        /\ req[r].pc = "done"
        /\ req[r].status = 400

\* the one call the README describes for a push on line n with latest line m
ReadmeCall(body, n, m) ==
    <<"electron", "electronjs.org-new",
      IF n >= m THEN "doc_changes" ELSE "doc_changes_previous",
      [sha |-> body.after, branch |-> LineName(n)]>>

\* C13 as the README and the doc_changes_previous tests state it: a
\* qualifying docs-touching push makes exactly one dispatch call, with sha and
\* branch, of type doc_changes on the latest or a newer line and
\* doc_changes_previous on a previous line.
C13_OneDispatchPerPush ==
    \A r \in DOMAIN req : \A n \in Majors : \A m \in Majors :
        LET q == req[r]
        IN  ( /\ policy = "A"
              /\ q.event = "push"
              /\ q.pc = "done"
              /\ q.branch = LineName(m)
              /\ q.body.ref = ReleaseLineRef(n)
              /\ FromSource(q.body)
              /\ TouchesDocs(q.body) )
            => q.calls = <<ReadmeCall(q.body, n, m)>>

\* C14: when a two-event router calls sendRepositoryDispatchEvent(owner,
\* repo, eventType, {sha, branch}) of src/utils/utils.js, the
\* createDispatchEvent request has event_type equal to that eventType and a
\* client_payload whose sha is payload.after and whose branch is the pushed
\* branch.
C14_PayloadFidelity ==
    \A r \in DOMAIN req :
        LET q == req[r]
        IN  (DualEvent /\ utilsVariant = "utils" /\ q.event = "push")
            => \A i \in 1..Len(q.outbound) :
                   LET sent == q.outbound[i]
                   IN  /\ sent.owner = "electron"
                       /\ sent.repo = DualTarget
                       /\ sent.event_type = q.calls[i][3]
                       /\ sent.client_payload.sha = q.body.after
                       /\ "branch" \in DOMAIN sent.client_payload
                       /\ S_refsHeads \o sent.client_payload.branch = q.body.ref

\* ref is refs/heads/N-x-y for one of the majors
IsReleaseLineRef(ref) == \E n \in Majors : ref = ReleaseLineRef(n)

\* C15: getMajor returns exactly N for 'N-x-y' and for 'refs/heads/N-x-y'
\* and fails for every other ref, refs/heads/main and the backport refs
\* refs/heads/trop/N-x-y-bp-... included; it never returns the major of a
\* partial match.
C15_getMajorExact ==
    \A r \in DOMAIN req :
        LET q == req[r]
        IN  (DualEvent /\ q.event = "push" /\ q.calls # <<>>)
            => /\ \A n \in Majors :
                      q.body.ref = ReleaseLineRef(n)
                      => (~getMajorThrows(q.body.ref) /\ getMajor(q.body.ref) = n)
               /\ \A m \in Majors :
                      q.branch = LineName(m)
                      => (~getMajorThrows(q.branch) /\ getMajor(q.branch) = m)
               /\ ~IsReleaseLineRef(q.body.ref) => getMajorThrows(q.body.ref)

\* current parses to a major that is not below the major latest parses to
AtOrAboveLatest(latest, current) ==
    \E n \in Majors : \E m \in Majors :
        current = ReleaseLineRef(n) /\ latest = LineName(m) /\ n >= m

\* C16: isLatest(latest, current) never throws; it is true exactly when both
\* refs parse to a major and the current one is not below the latest one,
\* and false when it is below or when one of the two does not parse.
C16_isLatestExact ==
    \A r \in DOMAIN req :
        LET q == req[r]
        IN  (DualEvent /\ q.event = "push" /\ q.calls # <<>>)
            => q.latest = AtOrAboveLatest(q.branch, q.body.ref)

\* C17: under src/routes/webhook.js a docs-touching push on a backport ref
\* refs/heads/trop/N-x-y-bp-... never has a doc_changes dispatch made for it,
\* whatever the latest branch.
C17_BackportNeverCurrent ==
    \A r \in DOMAIN req : \A n \in BackportMajors :
        LET q == req[r]
        IN  ( /\ policy = "A"
              /\ q.event = "push"
              /\ q.body.ref = BackportRef(n) )
            => \A i \in 1..Len(q.calls) : q.calls[i][3] # "doc_changes"

C19_DispatchOrder ==
    \A r \in DOMAIN req :
        LET q == req[r]
        IN  (DualEvent /\ q.event = "push")
            => /\ Len(q.calls) <= 2
               /\ q.settled <= Len(q.calls)
               /\ Len(q.calls) >= 1 => q.calls[1][3] = "doc_changes_branches"
               /\ Len(q.calls) = 2 => (q.calls[2][3] = "doc_changes" /\ q.settled >= 1)
               /\ q.status = 200 => q.settled = Len(q.calls)

C19_Witness ==
    \E r \in DOMAIN req :
        /\ DualEvent
        /\ req[r].event = "push"
        /\ req[r].branch = LineName(12)
        /\ req[r].body.ref = ReleaseLineRef(12)
        /\ Len(req[r].calls) = 2
        /\ req[r].settled = 2
        /\ req[r].status = 200

\* C20: under src/unnamed/part_000 a docs-touching push from OWNER/electron
\* on refs/heads/N-x-y with N not above the latest major has the
\* doc_changes_branches call made, for every N, majors of three digits
\* included.
C20_EveryReleaseLineAccepted ==
    \A r \in DOMAIN req : \A n \in Majors : \A m \in Majors :
        LET q == req[r]
        IN  ( /\ policy = "B"
              /\ q.event = "push"
              /\ n <= m
              /\ q.branch = LineName(m)
              /\ q.body.ref = ReleaseLineRef(n)
              /\ FromSource(q.body)
              /\ TouchesDocs(q.body) )
            => /\ q.calls # <<>>
               /\ q.calls[1] = BranchesCall(q.body, n)

\* C21: under src/unnamed/part_000 a docs-touching push on a ref with
\* trailing content after the release-line name, refs/heads/12-x-y-fix, is
\* excluded by the gate: no dispatch call is made for it.
C21_SuffixedRefSkipped ==
    \A r \in DOMAIN req :
        LET q == req[r]
        IN  (policy = "B" /\ q.event = "push" /\ q.body.ref = SuffixedRef)
            => q.calls = <<>>

\* C22: in every variant a push whose ref is not a release-line ref
\* (refs/heads/main, a feature or backport branch) has no dispatch call of
\* any type made for it, docs touched and OWNER/electron included.
C22_NonCanonicalRefSkipped ==
    \A r \in DOMAIN req :
        LET q == req[r]
        IN  (q.event = "push" /\ ~IsReleaseLineRef(q.body.ref))
            => q.calls = <<>>

\* C23: for every push, whatever its payload, the two-event variants make at
\* most two dispatch calls and the legacy variant at most one, and
\* getLatestInformation is called exactly once.
C23_CallBounds ==
    \A r \in DOMAIN req :
        LET q == req[r]
        IN  (q.event = "push" /\ q.routed)
            => /\ q.latestCalls = 1
               /\ Len(q.calls) <= (IF DualEvent THEN 2 ELSE 1)
               /\ Len(q.outbound) <= Len(q.calls)

C23_Witness ==
    \E r \in DOMAIN req :
        /\ DualEvent
        /\ req[r].event = "push"
        /\ Len(req[r].calls) = 2
        /\ req[r].latestCalls = 1
        /\ req[r].pc = "done"

\* C24: in the three variants a push whose repository.full_name is not
\* OWNER/electron makes no dispatch call and is answered with 200, whatever
\* its ref and its commits.
C24_OtherRepositorySkipped ==
    \A r \in DOMAIN req :
        LET q == req[r]
        IN  (q.event = "push" /\ q.routed /\ ~FromSource(q.body))
            => SkippedWith200(q)

C24_Witness ==
    \E r \in DOMAIN req :
        /\ req[r].event = "push"
        /\ req[r].body.repository.full_name = "fork/electron"
        /\ req[r].branch = LineName(12)
        /\ req[r].body.ref = ReleaseLineRef(12)
        /\ TouchesDocs(req[r].body)
        /\ req[r].status = 200

\* the latest branch is a release-line name
IsLineName(branch) == \E m \in Majors : branch = LineName(m)

\* C25: when the pushed ref or the latest branch is not a release line (the
\* latest version not of the form N.M.P, say), the push handler raises no
\* exception, makes no doc_changes dispatch and sends the 200.
C25_MalformedRefRecovered ==
    \A r \in DOMAIN req :
        LET q == req[r]
        IN  ( /\ DualEvent
              /\ q.event = "push"
              /\ LatestKnown(q)
              /\ (~IsReleaseLineRef(q.body.ref) \/ ~IsLineName(q.branch)) )
            => /\ q.pc = "rejected" => q.senderRaised
               /\ \A i \in 1..Len(q.calls) : q.calls[i][3] # "doc_changes"
               /\ q.pc = "done" => q.status = 200

\* C26: under src/unnamed/part_001 a release whose tag cannot be coerced to
\* a version (no digit in it) is not eligible: no dispatch call, no SHA
\* lookup, no exception, and a 200.
C26_UncoercibleTagSkipped ==
    \A r \in DOMAIN req :
        LET q == req[r]
        IN  ( /\ policy = "C"
              /\ q.event = "release"
              /\ LatestKnown(q)
              /\ q.body.release.tag_name = <<"l", "a", "t", "e", "s", "t">> )
            => /\ q.calls = <<>>
               /\ q.shaCalls = <<>>
               /\ q.pc = "done"
               /\ q.status = 200

\* C27: the memoized authorization of src/utils/utils.js is constructed at
\* most once: once a getAuthorization call has returned, the memoized object
\* is never replaced, cleared or changed, whatever request calls and in
\* whatever interleaving; while no credentials are configured every call
\* throws and nothing is memoized.
C27_MemoizedOnce ==
    [][ /\ authorization.kind # "none" => authorization' = authorization
        /\ authorization'.kind \in {"none", creds}
        /\ authorization'.id <= 1
        /\ creds = "none" => authorization' = NoAuthorization
        /\ (utilsVariant = "utils" /\ creds = "none")
               => \A r \in DOMAIN req :
                      /\ req'[r].calls # <<>> => req'[r].senderRaised
                      /\ req'[r].shaCalls # <<>> => req'[r].pc = "rejected" ]_vars

C27_Witness ==
    /\ utilsVariant = "utils"
    /\ authorization = [kind |-> "token", id |-> 1]
    /\ Cardinality(DOMAIN req) = 2
    /\ \A r \in DOMAIN req :
           /\ req[r].event = "push"
           /\ Len(req[r].outbound) = 2
           /\ req[r].status = 200

\* s is an initial part of t
IsPrefix(s, t) == Len(s) <= Len(t) /\ s = SubSeq(t, 1, Len(s))

\* the calls a push makes when it is handled alone: line n of the push,
\* latest line m
CallsAlone(body, n, m) ==
    IF DualEvent
    THEN IF n >= m THEN <<BranchesCall(body, n), CurrentCall(body, n)>>
         ELSE <<BranchesCall(body, n)>>
    ELSE IF n = m THEN << <<"electron", "electronjs.org-new", body.after>> >>
         ELSE <<>>

\* C28: with two requests in flight, in every interleaving, the dispatch
\* calls made for a push are those it makes when handled alone with the same
\* latest information, and no call carries the sha or the branch of the
\* other request's payload.
C28_RequestIsolation ==
    \A r \in DOMAIN req :
        LET q == req[r]
        IN  (q.event = "push")
            => /\ ~LatestKnown(q) => q.calls = <<>>
               /\ \A n \in Majors : \A m \in Majors :
                      (q.body.ref = ReleaseLineRef(n) /\ q.branch = LineName(m))
                      => /\ IsPrefix(q.calls, CallsAlone(q.body, n, m))
                         /\ q.pc = "done" => q.calls = CallsAlone(q.body, n, m)
               /\ \A i \in 1..Len(q.calls) :
                      DualEvent => /\ q.calls[i][4].sha = q.body.after
                                   /\ S_refsHeads \o q.calls[i][4].branch = q.body.ref

C28_Witness ==
    /\ Cardinality(DOMAIN req) = 2
    /\ DualEvent
    /\ req[1].event = "push"
    /\ req[2].event = "push"
    /\ req[1].body.after # req[2].body.after
    /\ req[1].body.ref # req[2].body.ref
    /\ req[1].pc = "send1"
    /\ req[2].pc = "send2"

\* C29: under src/unnamed/part_001 every dispatch call, of a push or of a
\* release, comes from an event whose repository.full_name is
\* OWNER/electron; an otherwise eligible release of another repository makes
\* no dispatch call.
C29_DispatchOnlyFromSource ==
    \A r \in DOMAIN req :
        LET q == req[r]
        IN  ( /\ policy = "C"
              /\ q.event \in {"push", "release"}
              /\ q.calls # <<>> )
            => FromSource(q.body)

\* C29 amended: under src/unnamed/part_001 every dispatch call of a push
\* comes from an event of OWNER/electron; a release is not tested for its
\* repository: a dispatch call of a release comes from an eligible release
\* (released, no draft, no prerelease, stable tag at or above the latest
\* version) of whatever repository, with the sha looked up in the repository
\* the event names.
C29_LegacyDispatchOrigin ==
    \A r \in DOMAIN req :
        LET q == req[r]
        IN  (policy = "C" /\ q.calls # <<>>)
            => /\ q.event \in {"push", "release"}
               /\ q.event = "push" => FromSource(q.body)
               /\ q.event = "release"
                      => /\ Released(q.body)
                         /\ StableAndCurrent(q.body.release.tag_name, q.version)
                         /\ q.shaCalls = << <<q.body.repository.full_name,
                                              q.body.release.tag_name>> >>
                         /\ q.sha \in Oids
                         /\ q.calls = << <<"electron", "electronjs.org-new", q.sha>> >>

C29_Witness ==
    \E r \in DOMAIN req :
        /\ policy = "C"
        /\ req[r].event = "release"
        /\ req[r].body.repository.full_name = "fork/electron"
        /\ req[r].shaCalls = << <<"fork/electron", <<"v", "1", "2", ".", "0", ".", "7">> >> >>
        /\ req[r].calls = << <<"electron", "electronjs.org-new", "123456">> >>
        /\ req[r].status = 200

====
